---- MODULE Spec2Model ----
(***************************************************************************)
(* YouTrack MCP server: the HTTP client runtime (TTL cache, retry engine,  *)
(* consecutive-failure health tracker) of client.ts and the background     *)
(* refresh scheduler of warmup.ts.                                         *)
(*                                                                         *)
(* One step of the model is one run-to-completion turn of the Node.js      *)
(* event loop: the code between two suspension points (await of fetch, of  *)
(* the body read, of the retry sleep).                                     *)
(***************************************************************************)
EXTENDS Integers, Sequences, FiniteSets, TLC

VARIABLES
    now,                  \* Date.now()
    store,                \* TTLCache.store: the Map of the cache
    consecutiveFailures,  \* YouTrackClient.consecutiveFailures
    notifs,               \* the invocations of onDegradation so far
    onDegradation,        \* the callback installed: "spy" returns, "throws" throws
    calls,                \* the calls of get / refresh, one per slot
    started,              \* number of calls issued so far
    streak,               \* history: calls ended in a transient failure since the
                          \* last call that ended in a success or a semantic failure
    timers,               \* the tiers whose setInterval timer is active
    nextFire,             \* per tier, the time of the next tick of its timer
    running,              \* per tier, the `running` flag of scheduleRefreshBatch
    cycles,               \* the timer callbacks awaiting their fetchBatch
    logs,                 \* the lines the log sink has received
    lastTick,             \* history: per tier, what its last tick did
    refreshes,            \* history: the labels whose latest periodic refresh
                          \* failed, and those one of whose refreshes failed
    warmup                \* runStartupWarmup: where it is suspended

schedVars == <<timers, nextFire, running, cycles, logs, lastTick, refreshes, warmup>>

vars == <<now, store, consecutiveFailures, notifs, onDegradation, calls, started,
          streak, schedVars>>

----------------------------------------------------------------------------
(* Bounds of the model *)

\* calls issued in one behaviour of CacheSpec
MaxCacheCalls == 3
\* the clock of SchedSpec stops advancing here
MaxSchedTime == 4
\* the clock of WarmupSpec stops advancing here
MaxWarmupTime == 1
\* periods of 5 minutes in the model's hour
HourTicks == 2
\* refresh calls of the scheduler that can be in flight at the same time
MaxSchedCalls == 5
\* calls issued in one behaviour of FillSpec
MaxFillCalls == 3
\* calls issued in one behaviour of OrderSpec
MaxOrderCalls == 3
\* calls issued in one behaviour of ClassifySpec
MaxClassifyCalls == 2
\* calls issued in one behaviour of CountSpec
MaxCountCalls == 3
\* calls issued in one behaviour of FailSpec
MaxFailCalls == 2
\* calls issued in one behaviour of RateSpec
MaxRateCalls == 2
\* calls issued in one behaviour of HealthSpec
MaxHealthCalls == 6
\* number of call slots that can be in flight at the same time
NumCalls == 2
\* the clock stops advancing here
MaxTime == 2
\* calls issued in one behaviour of Spec
MaxStarted == 2

CallIds == 1..NumCalls

----------------------------------------------------------------------------
(* Values *)

\* JavaScript undefined (TTLCache.get miss, absent status code, absent ttlMs)
Undefined == "undefined"
\* JSON null, a legal response body
Null == "null"
Values == {Null, "v1", "v2"}

NoStatus == 0
\* ttlMs omitted (undefined); every number, 0 included, is a TTL
NoTtl == -1
\* retryAfterMs undefined
NoRetryAfter == -1
\* headers.get("retry-after") null
NoHeader == -1

----------------------------------------------------------------------------
(* errors.ts *)

TRANSIENT_STATUSES == {408, 425, 429, 500, 502, 503, 504}

\* only the 5xx statuses count as transient
isTransientStatus_ServerErrors(status) == status >= 500

isTransientStatus(status) == status \in TRANSIENT_STATUSES

\* new YouTrackError(message, statusCode, isTransient, retryCount = 0, retryAfterMs?)
YouTrackError(message, statusCode, isTransient, retryCount, retryAfterMs) ==
    [cls |-> "YouTrackError", message |-> message, statusCode |-> statusCode,
     isTransient |-> isTransient, retryCount |-> retryCount,
     retryAfterMs |-> retryAfterMs]

\* any other exception (SyntaxError of response.json(), AbortError of a body read)
OtherError(message) ==
    [cls |-> "Error", message |-> message, statusCode |-> NoStatus,
     isTransient |-> FALSE, retryCount |-> 0, retryAfterMs |-> NoRetryAfter]

\* parseRetryAfter of a header that is absent or gives delay-seconds:
\* Math.ceil(seconds * 1000)
parseRetryAfter(header) ==
    IF header = NoHeader THEN NoRetryAfter
    ELSE IF header >= 0 THEN header * 1000
    ELSE NoRetryAfter

NoError ==
    [cls |-> "none", message |-> "", statusCode |-> NoStatus,
     isTransient |-> FALSE, retryCount |-> 0, retryAfterMs |-> NoRetryAfter]

----------------------------------------------------------------------------
(* client.ts: constants *)

\* RETRY_DELAYS_MS = [500, 1500]
RETRY_DELAYS_MS == <<500, 1500>>

\* DEGRADATION_THRESHOLDS
DEGRADATION_THRESHOLDS ==
    <<[count |-> 3, level |-> "warning"], [count |-> 5, level |-> "error"]>>

----------------------------------------------------------------------------
(* client.ts: TTLCache *)

\* a lookup that never looks at the expiry
CacheGetValue_NoExpiry(st, key, t) ==
    IF key \notin DOMAIN st THEN Undefined
    ELSE st[key].value

\* TTLCache.get: the value returned
CacheGetValue(st, key, t) ==
    IF key \notin DOMAIN st THEN Undefined
    ELSE IF t > st[key].exp THEN Undefined
    ELSE st[key].value

\* a lookup that finds an expired entry keeps it and makes it valid again
CacheGetStore_Revives(st, key, t) ==
    IF key \in DOMAIN st /\ t > st[key].exp
    THEN [st EXCEPT ![key].exp = t]
    ELSE st

\* TTLCache.get: the store it leaves (an expired entry is deleted)
CacheGetStore(st, key, t) ==
    IF key \in DOMAIN st /\ t > st[key].exp
    THEN [k \in DOMAIN st \ {key} |-> st[k]]
    ELSE st

\* TTLCache.set
CacheSet(st, key, value, ttlMs, t) ==
    [k \in DOMAIN st \cup {key} |->
        IF k = key THEN [value |-> value, exp |-> t + ttlMs] ELSE st[k]]

----------------------------------------------------------------------------
(* client.ts: buildUrl *)

\* String(v) of a parameter value
String(v) == v.s

RECURSIVE SearchParamsSet(_, _, _)
\* URLSearchParams.set: replaces the value of an existing name in place,
\* appends a new name
SearchParamsSet(q, k, s) ==
    IF q = <<>> THEN <<[k |-> k, s |-> s]>>
    ELSE IF Head(q).k = k THEN <<[k |-> k, s |-> s]>> \o Tail(q)
    ELSE <<Head(q)>> \o SearchParamsSet(Tail(q), k, s)

RECURSIVE BuildQuery(_, _)
BuildQuery(q, params) ==
    IF params = <<>> THEN q
    ELSE BuildQuery(SearchParamsSet(q, Head(params).k, String(Head(params).v)),
                    Tail(params))

\* the parameters left out of the URL
buildUrl_NoParams(path, params) == [path |-> path, query |-> <<>>]

\* params is Object.entries(params): the pairs in insertion order
buildUrl(path, params) == [path |-> path, query |-> BuildQuery(<<>>, params)]

----------------------------------------------------------------------------
(* client.ts: health *)

RECURSIVE ThresholdLevel_AtLeast(_, _)
\* `>=` instead of `===`: fires on every failure from the threshold on
ThresholdLevel_AtLeast(n, i) ==
    IF i > Len(DEGRADATION_THRESHOLDS) THEN "none"
    ELSE IF n >= DEGRADATION_THRESHOLDS[i].count THEN DEGRADATION_THRESHOLDS[i].level
    ELSE ThresholdLevel_AtLeast(n, i + 1)

RECURSIVE ThresholdLevel(_, _)
\* the for loop of recordFailure: level of the first threshold whose count
\* equals the counter, "none" when there is none
ThresholdLevel(n, i) ==
    IF i > Len(DEGRADATION_THRESHOLDS) THEN "none"
    ELSE IF n = DEGRADATION_THRESHOLDS[i].count THEN DEGRADATION_THRESHOLDS[i].level
    ELSE ThresholdLevel(n, i + 1)

\* recordFailure without its else branch: a semantic failure leaves the counter
recordFailure_NoReset(err, cf, ns) ==
    IF err.cls = "YouTrackError" /\ err.isTransient
    THEN LET n == cf + 1
             lvl == ThresholdLevel(n, 1)
         IN [cf |-> n,
             ns |-> IF lvl = "none" THEN ns
                    ELSE Append(ns, [level |-> lvl, count |-> n])]
    ELSE [cf |-> cf, ns |-> ns]

\* recordFailure: the counter and the onDegradation invocations it leaves
recordFailure(err, cf, ns) ==
    IF err.cls = "YouTrackError" /\ err.isTransient
    THEN LET n == cf + 1
             lvl == ThresholdLevel(n, 1)
         IN [cf |-> n,
             ns |-> IF lvl = "none" THEN ns
                    ELSE Append(ns, [level |-> lvl, count |-> n])]
    ELSE [cf |-> 0, ns |-> ns]

----------------------------------------------------------------------------
(* The network: what the mocked fetch answers to the n-th attempt of a call *)

\* every answer carries the Retry-After header of the response: its
\* delay-seconds, or NoHeader when the header is absent
RespOk(v) == [t |-> "ok", status |-> 200, value |-> v, retryAfter |-> NoHeader]
\* a 2xx response whose body cannot be read or parsed
RespBadBody == [t |-> "badbody", status |-> 200, value |-> Undefined, retryAfter |-> NoHeader]
RespHttp(s) == [t |-> "http", status |-> s, value |-> Undefined, retryAfter |-> NoHeader]
\* errorResponse(s, {}, { headers: { "retry-after": secs } })
RespHttpRetryAfter(s, secs) ==
    [t |-> "http", status |-> s, value |-> Undefined, retryAfter |-> secs]
\* fetch rejects with a TypeError
RejNet == [t |-> "neterr", status |-> NoStatus, value |-> Undefined, retryAfter |-> NoHeader]
\* fetch rejects with DOMException TimeoutError
RejTimeout == [t |-> "timeout", status |-> NoStatus, value |-> Undefined, retryAfter |-> NoHeader]
\* fetch rejects with DOMException AbortError (the caller's signal)
RejAbort == [t |-> "abort", status |-> NoStatus, value |-> Undefined, retryAfter |-> NoHeader]
NoResp == [t |-> "none", status |-> NoStatus, value |-> Undefined, retryAfter |-> NoHeader]

\* mockResolvedValueOnce ... mockResolvedValue: the last answer repeats
PlanAt(plan, n) == IF n <= Len(plan) THEN plan[n] ELSE plan[Len(plan)]

\* statusText of the mocked error response, the message parseErrorBody returns
StatusText(s) ==
    CASE s = 400 -> "Error 400" [] s = 401 -> "Error 401"
      [] s = 403 -> "Error 403" [] s = 404 -> "Error 404"
      [] s = 429 -> "Error 429" [] s = 500 -> "Error 500"
      [] s = 502 -> "Error 502" [] s = 503 -> "Error 503"
      [] OTHER -> "Error"

----------------------------------------------------------------------------
(* client.ts: cache TTLs, in ticks of the model's clock *)

\* The clock of the model tells the period of 5 minutes and, within it, an
\* early and a late part: two ticks a period.  Every TTL and every timer
\* interval is a whole number of periods, so adding one keeps the part, and
\* the comparisons of the code (expiry, a timer being due) come out as they
\* do on the millisecond clock.
MsPerTick == (5 * 60 * 1000) \div 2

TTL_5MIN == (5 * 60 * 1000) \div MsPerTick
\* 12 periods in the program; the model scales the hour down to HourTicks
TTL_HOUR == HourTicks * TTL_5MIN
\* Number.MAX_SAFE_INTEGER in the program; here the largest 32-bit integer
TTL_SESSION == 2147483647 \div MsPerTick

----------------------------------------------------------------------------
(* warmup.ts: the catalogue *)

Str(s) == [t |-> "string", s |-> s]
Num(s) == [t |-> "number", s |-> s]

CURRENT_USER ==
    [label |-> "current-user", path |-> "/users/me",
     params |-> <<[k |-> "fields", v |-> Str("USER")]>>,
     ttl |-> TTL_SESSION]

FIVE_MIN_ENTRIES ==
    << [label |-> "projects", path |-> "/admin/projects",
        params |-> <<[k |-> "fields", v |-> Str("PROJECT_LIST")],
                     [k |-> "$top", v |-> Num("REFERENCE_PAGE_SIZE")]>>,
        ttl |-> TTL_5MIN],
       [label |-> "projects-detail", path |-> "/admin/projects",
        params |-> <<[k |-> "fields", v |-> Str("PROJECT_DETAIL")],
                     [k |-> "$top", v |-> Num("REFERENCE_PAGE_SIZE")]>>,
        ttl |-> TTL_5MIN] >>

HOUR_ENTRIES ==
    << [label |-> "link-types", path |-> "/issueLinkTypes",
        params |-> <<[k |-> "fields", v |-> Str("LINK_TYPE")]>>,
        ttl |-> TTL_HOUR],
       [label |-> "global-custom-fields",
        path |-> "/admin/customFieldSettings/customFields",
        params |-> <<[k |-> "fields", v |-> Str("GLOBAL_CUSTOM_FIELD")],
                     [k |-> "$top", v |-> Num("REFERENCE_PAGE_SIZE")]>>,
        ttl |-> TTL_HOUR],
       [label |-> "tags", path |-> "/tags",
        params |-> <<[k |-> "fields", v |-> Str("TAG")],
                     [k |-> "$top", v |-> Num("REFERENCE_PAGE_SIZE")]>>,
        ttl |-> TTL_HOUR] >>

\* scheduleWarmup: the two scheduleRefreshBatch timers
Tiers == {"5min", "hour"}
TierEntries(t) == IF t = "5min" THEN FIVE_MIN_ENTRIES ELSE HOUR_ENTRIES
TierInterval(t) == IF t = "5min" THEN TTL_5MIN ELSE TTL_HOUR

----------------------------------------------------------------------------
(* A call of get / refresh / getBytes *)

IdleCall ==
    [pc |-> "idle", kind |-> "get", path |-> "/", params |-> <<>>,
     url |-> buildUrl("/", <<>>), ttlMs |-> NoTtl,
     sig |-> "none", attempt |-> 0, nFetch |-> 0, plan |-> <<RespOk(Null)>>,
     resp |-> NoResp, hist |-> <<>>, hit |-> FALSE, warm |-> FALSE, doneAt |-> 0,
     value |-> Undefined, ferr |-> NoError, err |-> NoError]

\* class of the failure an attempt ended in (history of the call, not program state)
ErrClass(err) ==
    IF err.cls # "YouTrackError" THEN "other"
    ELSE IF err.isTransient THEN "transient"
    ELSE IF err.statusCode = NoStatus THEN "cancelled"
    ELSE "semantic"

CancelledError == YouTrackError("Request cancelled by client", NoStatus, FALSE, 0, NoRetryAfter)

\* history of a call: the cache held an unexpired entry for its URL when it began
Warm(st, key, t) == key \in DOMAIN st /\ t <= st[key].exp

\* a truthiness test instead of the comparison with undefined
CacheHit_Truthy(cached) == cached \notin {Undefined, Null}

\* get: `cached !== undefined`
CacheHit(cached) == cached # Undefined

\* the loop without its signal check
LoopTop_NoCheck(k) == [k EXCEPT !.pc = "fetch", !.nFetch = @ + 1]

\* fetchWithRetry, top of the loop: the signal check, then fn() runs up to the
\* await of fetch (fetchJson issues the request synchronously)
LoopTop(k) ==
    IF k.sig = "aborted"
    THEN [k EXCEPT !.pc = "threw", !.err = CancelledError, !.doneAt = now]
    ELSE [k EXCEPT !.pc = "fetch", !.nFetch = @ + 1]

\* the retry budget test inverted: no failure is ever retried
ShouldRetry_Never(err, attempt, sig) ==
    LET transient == err.cls = "YouTrackError" /\ err.isTransient
        hasRetries == attempt > Len(RETRY_DELAYS_MS)
    IN transient /\ hasRetries /\ sig # "aborted"

\* every failure is retried while the budget lasts, whatever its class
ShouldRetry_AnyError(err, attempt, sig) ==
    LET hasRetries == attempt < Len(RETRY_DELAYS_MS)
    IN hasRetries /\ sig # "aborted"

\* one retry too many
ShouldRetry_OneMore(err, attempt, sig) ==
    LET transient == err.cls = "YouTrackError" /\ err.isTransient
        hasRetries == attempt <= Len(RETRY_DELAYS_MS)
    IN transient /\ hasRetries /\ sig # "aborted"

\* fetchWithRetry catch: `transient && hasRetries && !signal?.aborted`
ShouldRetry(err, attempt, sig) ==
    LET transient == err.cls = "YouTrackError" /\ err.isTransient
        hasRetries == attempt < Len(RETRY_DELAYS_MS)
    IN transient /\ hasRetries /\ sig # "aborted"

\* the retry count is attached only when no retry is left
Rethrown_OnlyExhausted(err, attempt) ==
    IF err.cls = "YouTrackError" /\ attempt = Len(RETRY_DELAYS_MS)
    THEN YouTrackError(err.message, err.statusCode, err.isTransient, attempt,
                       NoRetryAfter)
    ELSE err

\* fetchWithRetry catch: the error thrown on final failure
Rethrown(err, attempt) ==
    IF err.cls = "YouTrackError" /\ attempt > 0
    THEN YouTrackError(err.message, err.statusCode, err.isTransient, attempt, NoRetryAfter)
    ELSE err

\* an answer of the network that is a transient failure
TransientOutcome(o) ==
    \/ o.t \in {"neterr", "timeout"}
    \/ o.t = "http" /\ o.status \in {408, 425, 429, 500, 502, 503, 504}

\* an answer of the network that is a semantic failure
SemanticOutcome(o) == o.t = "http" /\ o.status \in {400, 401, 403, 404}

\* history: the streak after a call has thrown on the network's answer o
StreakAfter(n, o) ==
    IF TransientOutcome(o) THEN n + 1
    ELSE IF SemanticOutcome(o) THEN 0
    ELSE n

\* the exception of a callback that throws
CallbackError == OtherError("onDegradation failed")

\* recordFailure: `this.onDegradation?.(level, message)` was invoked (ns0
\* became ns1) and the callback installed throws
CallbackThrows(cb, ns0, ns1) == Len(ns1) > Len(ns0) /\ cb = "throws"

\* the failure of every attempt is recorded, also the one that is retried
Catch_RecordsEachAttempt(c, k0, o, err) ==
    LET k == [k0 EXCEPT !.ferr = err, !.resp = NoResp,
                        !.hist = Append(@, [t |-> o.t, status |-> o.status,
                                            cls |-> ErrClass(err)])]
        r == recordFailure(err, consecutiveFailures, notifs)
    IN /\ consecutiveFailures' = r.cf
       /\ notifs' = r.ns
       /\ IF ShouldRetry(err, k.attempt, k.sig)
          THEN /\ calls' = [calls EXCEPT ![c] = [k EXCEPT !.pc = "sleep"]]
               /\ UNCHANGED streak
          ELSE /\ calls' = [calls EXCEPT ![c] =
                     [k EXCEPT !.pc = "threw", !.err = Rethrown(err, k.attempt),
                               !.doneAt = now]]
               /\ streak' = StreakAfter(streak, o)

\* fetchWithRetry catch block, entered with the error fn() threw
Catch(c, k0, o, err) ==
    LET k == [k0 EXCEPT !.ferr = err, !.resp = NoResp,
                        !.hist = Append(@, [t |-> o.t, status |-> o.status,
                                            cls |-> ErrClass(err)])]
    IN IF ShouldRetry(err, k.attempt, k.sig)
       THEN /\ calls' = [calls EXCEPT ![c] = [k EXCEPT !.pc = "sleep"]]
            /\ UNCHANGED <<consecutiveFailures, notifs, streak>>
       ELSE LET r == recordFailure(err, consecutiveFailures, notifs)
                \* the callback runs inside recordFailure: what it throws
                \* leaves the catch block in place of the re-thrown failure
                thrown == IF CallbackThrows(onDegradation, notifs, r.ns)
                          THEN CallbackError
                          ELSE Rethrown(err, k.attempt)
            IN /\ consecutiveFailures' = r.cf
               /\ notifs' = r.ns
               /\ calls' = [calls EXCEPT ![c] =
                     [k EXCEPT !.pc = "threw", !.err = thrown, !.doneAt = now]]
               /\ streak' = StreakAfter(streak, o)

\* the value is cached whether or not the call has a TTL
Success_AlwaysSets(c, k0, data) ==
    LET k == [k0 EXCEPT !.resp = NoResp,
                        !.hist = Append(@, [t |-> "ok", status |-> k0.resp.status,
                                            cls |-> "ok"])]
    IN /\ consecutiveFailures' = 0
       /\ store' = CacheSet(store, k.url, data,
                            IF k.ttlMs # NoTtl THEN k.ttlMs ELSE TTL_5MIN, now)
       /\ calls' = [calls EXCEPT ![c] =
             [k EXCEPT !.pc = "returned", !.value = data, !.doneAt = now]]
       /\ streak' = 0
       /\ UNCHANGED notifs

\* the value is cached only when the key holds no valid entry
Success_KeepsExisting(c, k0, data) ==
    LET k == [k0 EXCEPT !.resp = NoResp,
                        !.hist = Append(@, [t |-> "ok", status |-> k0.resp.status,
                                            cls |-> "ok"])]
    IN /\ consecutiveFailures' = 0
       /\ store' = IF k.ttlMs # NoTtl /\ CacheGetValue(store, k.url, now) = Undefined
                   THEN CacheSet(store, k.url, data, k.ttlMs, now)
                   ELSE store
       /\ calls' = [calls EXCEPT ![c] =
             [k EXCEPT !.pc = "returned", !.value = data, !.doneAt = now]]
       /\ streak' = 0
       /\ UNCHANGED notifs

\* fetchWithRetry success path, then the rest of get / refresh
Success(c, k0, data) ==
    LET k == [k0 EXCEPT !.resp = NoResp,
                        !.hist = Append(@, [t |-> "ok", status |-> k0.resp.status,
                                            cls |-> "ok"])]
    IN /\ consecutiveFailures' = 0
       /\ store' = IF k.ttlMs # NoTtl
                   THEN CacheSet(store, k.url, data, k.ttlMs, now)
                   ELSE store
       /\ calls' = [calls EXCEPT ![c] =
             [k EXCEPT !.pc = "returned", !.value = data, !.doneAt = now]]
       /\ streak' = 0
       /\ UNCHANGED notifs

----------------------------------------------------------------------------
(* Actions *)

Init ==
    /\ now = 0
    /\ store = <<>>
    /\ consecutiveFailures = 0
    /\ notifs = <<>>
    /\ onDegradation = "spy"
    /\ calls = [c \in CallIds |-> IdleCall]
    /\ started = 0
    /\ streak = 0
    /\ timers = {}
    /\ nextFire = [t \in Tiers |-> 0]
    /\ running = [t \in Tiers |-> FALSE]
    /\ cycles = {}
    /\ logs = {}
    /\ lastTick = [t \in Tiers |-> "none"]
    /\ refreshes = [stale |-> {}, failed |-> {}]
    /\ warmup = "none"

\* client.get(path, params, ttlMs, signal) up to its first suspension point
Get(c, path, params, ttlMs, sig, plan) ==
    /\ calls[c].pc = "idle"
    /\ LET urlStr == buildUrl(path, params)
           cached == IF ttlMs # NoTtl THEN CacheGetValue(store, urlStr, now)
                     ELSE Undefined
           k == [IdleCall EXCEPT !.kind = "get", !.path = path, !.params = params,
                                 !.url = urlStr, !.ttlMs = ttlMs,
                                 !.sig = sig, !.plan = plan,
                                 !.warm = Warm(store, urlStr, now)]
       IN /\ store' = IF ttlMs # NoTtl THEN CacheGetStore(store, urlStr, now)
                      ELSE store
          /\ calls' = [calls EXCEPT ![c] =
                IF ttlMs # NoTtl /\ CacheHit(cached)
                THEN [k EXCEPT !.pc = "returned", !.hit = TRUE, !.value = cached,
                               !.doneAt = now]
                ELSE LoopTop(k)]
    /\ started' = started + 1
    /\ UNCHANGED <<now, onDegradation, consecutiveFailures, notifs, streak, schedVars>>

\* a refresh that reads the cache first, as get does
RefreshCall_ThroughCache(path, params, ttlMs, sig, plan) ==
    LET urlStr == buildUrl(path, params)
        k == [IdleCall EXCEPT !.kind = "refresh", !.path = path, !.params = params,
                              !.url = urlStr,
                              !.ttlMs = ttlMs, !.sig = sig, !.plan = plan,
                              !.warm = Warm(store, urlStr, now)]
    IN IF ttlMs # NoTtl /\ CacheHit(CacheGetValue(store, urlStr, now))
       THEN [k EXCEPT !.pc = "returned", !.hit = TRUE, !.doneAt = now,
                      !.value = CacheGetValue(store, urlStr, now)]
       ELSE LoopTop(k)

\* client.refresh up to its first suspension point: the call it leaves
RefreshCall(path, params, ttlMs, sig, plan) ==
    LoopTop([IdleCall EXCEPT !.kind = "refresh", !.path = path, !.params = params,
                             !.url = buildUrl(path, params),
                             !.ttlMs = ttlMs, !.sig = sig, !.plan = plan,
                             !.warm = Warm(store, buildUrl(path, params), now)])

\* client.refresh(path, params, ttlMs, signal) up to its first suspension point
Refresh(c, path, params, ttlMs, sig, plan) ==
    /\ calls[c].pc = "idle"
    /\ calls' = [calls EXCEPT ![c] = RefreshCall(path, params, ttlMs, sig, plan)]
    /\ started' = started + 1
    /\ UNCHANGED <<now, onDegradation, store, consecutiveFailures, notifs, streak, schedVars>>

\* the fetch promise of call c settles; fetchJson runs to its next await or throws
FetchSettles(c) ==
    /\ calls[c].pc = "fetch"
    /\ LET k == calls[c]
       IN \E o \in {PlanAt(k.plan, k.nFetch)} \cup
                    (IF k.sig = "aborted" THEN {RejAbort} ELSE {}) :
            IF o.t \in {"ok", "badbody", "http"}
            THEN /\ calls' = [calls EXCEPT ![c] = [k EXCEPT !.pc = "body", !.resp = o]]
                 /\ UNCHANGED <<consecutiveFailures, notifs, streak>>
            ELSE IF o.t = "timeout"
            THEN Catch(c, k, o, YouTrackError("Request timed out after 30000ms",
                                           NoStatus, TRUE, 0, NoRetryAfter))
            ELSE IF k.sig = "aborted"
            THEN Catch(c, k, o, CancelledError)
            ELSE Catch(c, k, o, YouTrackError("fetch failed", NoStatus, TRUE, 0, NoRetryAfter))
    /\ UNCHANGED <<now, onDegradation, store, started, schedVars>>

\* the body of the response has been read (or the read has failed):
\* response.json() of a 2xx, parseErrorBody of a non-2xx
BodyDone(c) ==
    /\ calls[c].pc = "body"
    /\ LET k == calls[c]
       IN CASE k.resp.t = "ok" ->
                 \/ Success(c, k, k.resp.value)
                 \/ /\ k.sig = "aborted"
                    /\ Catch(c, k, RejAbort, OtherError("This operation was aborted"))
                    /\ UNCHANGED store
            [] k.resp.t = "badbody" ->
                 /\ Catch(c, k, k.resp, OtherError("Unexpected token in JSON"))
                 /\ UNCHANGED store
            [] OTHER ->
                 /\ Catch(c, k, k.resp, YouTrackError(StatusText(k.resp.status), k.resp.status,
                                              isTransientStatus(k.resp.status),
                                              0, NoRetryAfter))
                 /\ UNCHANGED store
    /\ UNCHANGED <<now, onDegradation, started, schedVars>>

\* the backoff sleep of call c ends: attempt++ and the top of the loop
Wake(c) ==
    /\ calls[c].pc = "sleep"
    /\ calls' = [calls EXCEPT ![c] = LoopTop([@ EXCEPT !.attempt = @ + 1])]
    /\ UNCHANGED <<now, onDegradation, store, consecutiveFailures, notifs, started, streak, schedVars>>

\* the caller triggers the AbortSignal of a pending call
Abort(c) ==
    /\ calls[c].pc \in {"fetch", "body", "sleep"}
    /\ calls[c].sig = "live"
    /\ calls' = [calls EXCEPT ![c].sig = "aborted"]
    /\ UNCHANGED <<now, onDegradation, store, consecutiveFailures, notifs, started, streak, schedVars>>

\* the caller has consumed the outcome of call c; the slot is free again
Release(c) ==
    /\ calls[c].pc \in {"returned", "threw"}
    /\ calls' = [calls EXCEPT ![c] = IdleCall]
    /\ UNCHANGED <<now, onDegradation, store, consecutiveFailures, notifs, started, streak, schedVars>>

\* Date.now() advances
AdvanceTime(max) ==
    /\ now < max
    /\ \A t \in timers : now < nextFire[t]
    /\ now' = now + 1
    /\ UNCHANGED <<store, consecutiveFailures, notifs, onDegradation, calls, started,
                   streak, schedVars>>

----------------------------------------------------------------------------
(* Spec: uncached calls with a cancellation signal against a failing network *)

\* no signal, or a signal the caller may trigger while the call is pending
Signals == {"none", "live"}

RetryPlans ==
    { <<RespOk("v1")>>,
      <<RespHttp(404)>>,
      <<RespBadBody>>,
      <<RespHttp(503), RespOk("v1")>>,
      <<RejNet, RespOk("v2")>>,
      <<RejTimeout, RespOk(Null)>>,
      <<RespHttp(429), RespHttp(401)>>,
      <<RespHttp(500), RespHttp(502), RespHttp(503)>> }

StartCall(c) ==
    /\ started < MaxStarted
    /\ \/ \E sig \in Signals, plan \in RetryPlans :
             Get(c, "/test", <<>>, NoTtl, sig, plan)
       \* a signal triggered before the call: the network is not asked
       \/ Get(c, "/test", <<>>, NoTtl, "aborted", <<RespOk("v1")>>)

Next ==
    \E c \in CallIds :
        \/ StartCall(c)
        \/ FetchSettles(c)
        \/ BodyDone(c)
        \/ Wake(c)
        \/ Abort(c)
        \/ Release(c)

Spec == Init /\ [][Next]_vars

----------------------------------------------------------------------------
(* FairSpec: one caller issuing its calls one after the other.  The fetch  *)
(* and the body read end within TIMEOUT_MS and the backoff timer fires, so *)
(* each pending step of a call is eventually taken.                        *)

NextSolo ==
    \/ StartCall(1)
    \/ FetchSettles(1)
    \/ BodyDone(1)
    \/ Wake(1)
    \/ Abort(1)
    \/ Release(1)

FairSpec ==
    /\ Init
    /\ [][NextSolo]_vars
    /\ WF_vars(FetchSettles(1))
    /\ WF_vars(BodyDone(1))
    /\ WF_vars(Wake(1))

----------------------------------------------------------------------------
(* HealthSpec: a long sequence of calls without signals, each answered by  *)
(* a success, a semantic failure or transient failures                     *)

HealthPlans ==
    { <<RespOk("v1")>>,
      <<RespHttp(404)>>,
      <<RespHttp(503)>>,
      <<RespHttp(503), RespOk("v1")>> }

StartHealthCall(c) ==
    /\ started < MaxHealthCalls
    /\ \E plan \in HealthPlans : Get(c, "/test", <<>>, NoTtl, "none", plan)

NextHealth ==
    \E c \in CallIds :
        \/ StartHealthCall(c)
        \/ FetchSettles(c)
        \/ BodyDone(c)
        \/ Wake(c)
        \/ Release(c)

HealthSpec == Init /\ [][NextHealth]_vars

----------------------------------------------------------------------------
(* CacheSpec: get and refresh calls, cached or not, while the clock runs   *)

CacheParams ==
    { <<[k |-> "fields", v |-> Str("a")]>>,
      <<[k |-> "fields", v |-> Str("b")]>> }

\* the TTLs of the calls, in ticks of the clock
CacheTtls == {NoTtl, 1}

CachePlans == { <<RespOk("v1")>>, <<RespOk(Null)>>, <<RespHttp(404)>> }

StartCacheCall(c) ==
    /\ started < MaxCacheCalls
    /\ \E params \in CacheParams, ttlMs \in CacheTtls, plan \in CachePlans :
          \/ Get(c, "/test", params, ttlMs, "none", plan)
          \* every caller of refresh (fetchEntry, runStartupWarmup) passes a TTL
          \/ ttlMs # NoTtl /\ Refresh(c, "/test", params, ttlMs, "none", plan)

NextCache ==
    \/ AdvanceTime(MaxTime)
    \/ \E c \in CallIds :
        \/ StartCacheCall(c)
        \/ FetchSettles(c)
        \/ BodyDone(c)
        \/ Release(c)

CacheSpec == Init /\ [][NextCache]_vars

----------------------------------------------------------------------------
(* NotifySpec: the calls of HealthSpec, on a client whose onDegradation    *)
(* callback either returns or throws                                       *)

NotifyInit ==
    /\ now = 0
    /\ store = <<>>
    /\ consecutiveFailures = 0
    /\ notifs = <<>>
    /\ onDegradation \in {"spy", "throws"}
    /\ calls = [c \in CallIds |-> IdleCall]
    /\ started = 0
    /\ streak = 0
    /\ timers = {}
    /\ nextFire = [t \in Tiers |-> 0]
    /\ running = [t \in Tiers |-> FALSE]
    /\ cycles = {}
    /\ logs = {}
    /\ lastTick = [t \in Tiers |-> "none"]
    /\ refreshes = [stale |-> {}, failed |-> {}]
    /\ warmup = "none"

NotifySpec == NotifyInit /\ [][NextHealth]_vars

----------------------------------------------------------------------------
(* RateSpec: calls against a rate-limiting server, whose 429 responses     *)
(* carry a Retry-After header                                              *)

RatePlans ==
    { <<RespHttpRetryAfter(429, 120)>>,
      <<RespHttpRetryAfter(429, 120), RespOk("v1")>>,
      <<RespHttpRetryAfter(503, 0), RespHttp(429)>>,
      <<RespOk("v1")>> }

StartRateCall(c) ==
    /\ started < MaxRateCalls
    /\ \E plan \in RatePlans : Get(c, "/rate-exhaust", <<>>, NoTtl, "none", plan)

NextRate ==
    \E c \in CallIds :
        \/ StartRateCall(c)
        \/ FetchSettles(c)
        \/ BodyDone(c)
        \/ Wake(c)
        \/ Release(c)

RateSpec == Init /\ [][NextRate]_vars

----------------------------------------------------------------------------
(* OrderSpec: cached gets of one path whose callers build the same         *)
(* parameter object with its properties inserted in either order           *)

\* { fields: "a", $top: 50 } and { $top: 50, fields: "a" }
OrderParams ==
    { <<[k |-> "fields", v |-> Str("a")], [k |-> "$top", v |-> Num("50")]>>,
      <<[k |-> "$top", v |-> Num("50")], [k |-> "fields", v |-> Str("a")]>> }

OrderPlans == { <<RespOk("v1")>>, <<RespOk("v2")>> }

StartOrderCall(c) ==
    /\ started < MaxOrderCalls
    /\ \E params \in OrderParams, plan \in OrderPlans :
          Get(c, "/test", params, TTL_5MIN, "none", plan)

NextOrder ==
    \/ AdvanceTime(MaxTime)
    \/ \E c \in CallIds :
        \/ StartOrderCall(c)
        \/ FetchSettles(c)
        \/ BodyDone(c)
        \/ Release(c)

OrderSpec == Init /\ [][NextOrder]_vars

----------------------------------------------------------------------------
(* FillSpec: a cache that earlier gets have filled with 1000 entries, as   *)
(* the loop of the capacity test does, and cached gets of old and new keys *)

\* the capacity the tests expect of the cache
MAX_CACHE_ENTRIES == 1000

\* `/entry-${i}`
EntryPath(i) == "/entry-" \o ToString(i)

\* the keys the calls ask for: the two oldest, the newest cached, a new one
FillKeys == {0, 1, MAX_CACHE_ENTRIES - 1, MAX_CACHE_ENTRIES}

\* the state after get(`/entry-${i}`, undefined, TTL_HOUR) for i = 0 .. 999,
\* issued one after the other and each answered with a value
FillInit ==
    /\ now = 0
    /\ store = [u \in {buildUrl(EntryPath(i), <<>>) : i \in 0..(MAX_CACHE_ENTRIES - 1)}
                  |-> [value |-> "v1", exp |-> 0 + TTL_HOUR]]
    /\ consecutiveFailures = 0
    /\ notifs = <<>>
    /\ onDegradation = "spy"
    /\ calls = [c \in CallIds |-> IdleCall]
    /\ started = 0
    /\ streak = 0
    /\ timers = {}
    /\ nextFire = [t \in Tiers |-> 0]
    /\ running = [t \in Tiers |-> FALSE]
    /\ cycles = {}
    /\ logs = {}
    /\ lastTick = [t \in Tiers |-> "none"]
    /\ refreshes = [stale |-> {}, failed |-> {}]
    /\ warmup = "none"

StartFillCall(c) ==
    /\ started < MaxFillCalls
    /\ \E i \in FillKeys :
          Get(c, EntryPath(i), <<>>, TTL_HOUR, "none", <<RespOk("v2")>>)

NextFill ==
    \E c \in CallIds :
        \/ StartFillCall(c)
        \/ FetchSettles(c)
        \/ BodyDone(c)
        \/ Release(c)

FillSpec == FillInit /\ [][NextFill]_vars

----------------------------------------------------------------------------
(* ClassifySpec: calls without signals, each answered, on every attempt,   *)
(* by one HTTP status, by a network error, by a timeout or by a body       *)

ClassifyStatuses == {400, 401, 403, 404, 408, 418, 425, 429, 500, 501, 502, 503, 504}

ClassifyPlans ==
    {<<RespHttp(st)>> : st \in ClassifyStatuses}
    \cup {<<RejNet>>, <<RejTimeout>>, <<RespOk("v1")>>, <<RespBadBody>>}

StartClassifyCall(c) ==
    /\ started < MaxClassifyCalls
    /\ \E plan \in ClassifyPlans : Get(c, "/test", <<>>, NoTtl, "none", plan)

NextClassify ==
    \E c \in CallIds :
        \/ StartClassifyCall(c)
        \/ FetchSettles(c)
        \/ BodyDone(c)
        \/ Wake(c)
        \/ Release(c)

ClassifySpec == Init /\ [][NextClassify]_vars

----------------------------------------------------------------------------
(* CountSpec: calls, with or without a cancellation signal, that the       *)
(* network fails transiently on every attempt or on the first one          *)

CountPlans ==
    { <<RespHttp(503)>>,
      <<RespHttp(503), RespOk("v1")>> }

StartCountCall(c) ==
    /\ started < MaxCountCalls
    /\ \E sig \in Signals, plan \in CountPlans : Get(c, "/test", <<>>, NoTtl, sig, plan)

NextCount ==
    \E c \in CallIds :
        \/ StartCountCall(c)
        \/ FetchSettles(c)
        \/ BodyDone(c)
        \/ Wake(c)
        \/ Abort(c)
        \/ Release(c)

CountSpec == Init /\ [][NextCount]_vars

----------------------------------------------------------------------------
(* FailSpec: cached gets and refreshes, with or without a cancellation     *)
(* signal, that the network answers with a value, with a semantic failure  *)
(* or with transient failures, while the clock runs                        *)

FailPlans == { <<RespOk("v1")>>, <<RespHttp(404)>>, <<RespHttp(503)>> }

StartFailCall(c) ==
    /\ started < MaxFailCalls
    /\ \E params \in CacheParams, sig \in Signals, plan \in FailPlans :
          \/ Get(c, "/test", params, 1, sig, plan)
          \* no caller of refresh (fetchEntry, runStartupWarmup) passes a signal
          \/ sig = "none" /\ Refresh(c, "/test", params, 1, sig, plan)

NextFail ==
    \/ AdvanceTime(MaxTime)
    \/ \E c \in CallIds :
        \/ StartFailCall(c)
        \/ FetchSettles(c)
        \/ BodyDone(c)
        \/ Wake(c)
        \/ Abort(c)
        \/ Release(c)

FailSpec == Init /\ [][NextFail]_vars

----------------------------------------------------------------------------
(* warmup.ts: the background refresh *)

SchedSlots == 1..MaxSchedCalls

Finished(k) == k.pc \in {"returned", "threw"}
Pending(k) == k.pc \in {"fetch", "body", "sleep"}

\* what the network answers to the n refresh calls of one cycle: a value to
\* each, a failure to each, or a failure to the first call only
SchedPlans(n) ==
    { [i \in 1..n |-> <<RespOk("v1")>>],
      [i \in 1..n |-> <<RespHttp(404)>>],
      [i \in 1..n |-> IF i = 1 THEN <<RespHttp(404)>> ELSE <<RespOk("v1")>>] }

RECURSIVE TakeMin(_, _)
\* the n smallest elements of S, in increasing order
TakeMin(S, n) ==
    IF n = 0 THEN <<>>
    ELSE LET m == CHOOSE x \in S : \A y \in S : x <= y
         IN <<m>> \o TakeMin(S \ {m}, n - 1)

\* the timer callback does nothing at all
SkipTick_Never(r) == FALSE

\* scheduleRefreshBatch: `if (running) return;`
SkipTick(r) == r

\* one flag shared by the timers of all tiers
RunningFlag_Shared(r, t) == \E u \in DOMAIN r : r[u]

\* scheduleRefreshBatch: `let running = false`, a variable of each call of
\* scheduleRefreshBatch, that is of each tier
RunningFlag(r, t) == r[t]

\* fetchBatch has settled: every fetchEntry of the callback has ended
Settled(cy) == \A i \in 1..Len(cy.slots) : Finished(calls[cy.slots[i]])

\* a tick of the setInterval timer of tier t: the callback up to its await
TimerTick(t) ==
    /\ t \in timers
    /\ now >= nextFire[t]
    /\ nextFire' = [nextFire EXCEPT ![t] = @ + TierInterval(t)]
    /\ IF SkipTick(RunningFlag(running, t))
       THEN /\ lastTick' = [lastTick EXCEPT ![t] = "skipped"]
            /\ UNCHANGED <<calls, running, cycles>>
       ELSE LET es == TierEntries(t)
                free == {c \in DOMAIN calls : calls[c].pc = "idle"}
            IN /\ Cardinality(free) >= Len(es)
               /\ \E plans \in SchedPlans(Len(es)) :
                    LET slots == TakeMin(free, Len(es))
                    IN /\ calls' = [c \in DOMAIN calls |->
                              IF \E i \in 1..Len(es) : slots[i] = c
                              THEN LET i == CHOOSE i \in 1..Len(es) : slots[i] = c
                                   IN RefreshCall(es[i].path, es[i].params, es[i].ttl,
                                                  "none", plans[i])
                              ELSE calls[c]]
                       /\ cycles' = cycles \cup {[tier |-> t, slots |-> slots]}
               /\ running' = [running EXCEPT ![t] = TRUE]
               /\ lastTick' = [lastTick EXCEPT ![t] = "started"]
    /\ UNCHANGED <<now, onDegradation, store, consecutiveFailures, notifs, started, streak,
                   timers, logs, refreshes, warmup>>

\* the callback without its finally block: the flag stays set
Finally_Missing(r, t) == r

\* scheduleRefreshBatch: `finally { running = false; }`
Finally(r, t) == [r EXCEPT ![t] = FALSE]

\* the timer callback after its await of fetchBatch: the log line and finally
CycleDone(cy) ==
    /\ cy \in cycles
    /\ Settled(cy)
    /\ LET failed == {i \in 1..Len(cy.slots) : calls[cy.slots[i]].pc = "threw"}
       IN IF failed = {} THEN logs' = logs
          ELSE \E sink1, sink2 \in BOOLEAN :
                 \* a LogFn may throw (that of index.ts does not): then the
                 \* catch block logs once more
                 logs' = IF sink1
                         THEN logs \cup {[level |-> "warning",
                                          text |-> "Background refresh failed"]}
                         ELSE IF sink2
                         THEN logs \cup {[level |-> "warning",
                                          text |-> "Background refresh error"]}
                         ELSE logs
    /\ LET es == TierEntries(cy.tier)
           bad == {es[i].label : i \in {j \in 1..Len(cy.slots) :
                                           calls[cy.slots[j]].pc = "threw"}}
           good == {es[i].label : i \in {j \in 1..Len(cy.slots) :
                                            calls[cy.slots[j]].pc = "returned"}}
       IN refreshes' = [stale |-> (refreshes.stale \ good) \cup bad,
                        failed |-> refreshes.failed \cup bad]
    /\ running' = Finally(running, cy.tier)
    /\ calls' = [c \in DOMAIN calls |->
                   IF \E i \in 1..Len(cy.slots) : cy.slots[i] = c
                   THEN IdleCall ELSE calls[c]]
    /\ cycles' = cycles \ {cy}
    /\ UNCHANGED <<now, onDegradation, store, consecutiveFailures, notifs, started, streak,
                   timers, nextFire, lastTick, warmup>>

\* the handle clears the first timer only
ClearTimers_FirstOnly(ts) == ts \ {"5min"}

\* scheduleWarmup: `timers.forEach(clearInterval)`
ClearTimers(ts) == {}

\* the cleanup handle of scheduleWarmup: clearInterval on every timer
Cleanup ==
    /\ timers # {}
    /\ timers' = ClearTimers(timers)
    /\ UNCHANGED <<now, onDegradation, store, consecutiveFailures, notifs, calls, started, streak,
                   nextFire, running, cycles, logs, lastTick, refreshes, warmup>>

----------------------------------------------------------------------------
(* warmup.ts: the startup warmup *)

\* runStartupWarmup: `rest`, the entries of the parallel batch
WarmupRest == FIVE_MIN_ENTRIES \o HOUR_ENTRIES

\* the slot of the identity call, and those of the calls of the batch
UserSlot == 1
RestSlots == [i \in 1..Len(WarmupRest) |-> i + 1]
WarmupSlots == 1..(1 + Len(WarmupRest))

RECURSIVE Labels(_, _, _)
\* the labels of the entries whose call has ended in state pc, in entry order
Labels(es, slots, pc) ==
    IF es = <<>> THEN <<>>
    ELSE (IF calls[Head(slots)].pc = pc THEN <<Head(es).label>> ELSE <<>>)
         \o Labels(Tail(es), Tail(slots), pc)

\* fetchBatch after Promise.allSettled: the labels fulfilled and rejected
fetchBatch(es, slots) ==
    [ok |-> Labels(es, slots, "returned"), failed |-> Labels(es, slots, "threw")]

\* runStartupWarmup: the line logged by the catch block of the identity call
AuthLine == [level |-> "error", text |-> "Warmup: failed to authenticate"]

\* runStartupWarmup: the summary line of the batch
SummaryLine(r) ==
    [level |-> IF Len(r.failed) = 0 THEN "info" ELSE "warning",
     text |-> IF Len(r.failed) = 0 THEN "Warmup complete" ELSE "Warmup partial",
     ok |-> r.ok, failed |-> r.failed]

\* what the network answers to the identity call and to the calls of the batch
UserPlans == {<<RespOk("v1")>>, <<RespHttp(401)>>}
RestPlans == [1..Len(WarmupRest) -> {<<RespOk("v1")>>, <<RespHttp(404)>>}]

\* the batch is issued only to an authenticated user
WarmupProceeds_Authenticated(user) == user.pc = "returned"

\* runStartupWarmup: the catch block of the identity call swallows the failure
\* ("Non-fatal: proceed with remaining entries even if auth check failed")
WarmupProceeds(user) == TRUE

\* runStartupWarmup from the settling of the identity call to the await of
\* fetchBatch
WarmupUserDone ==
    /\ warmup = "user"
    /\ Finished(calls[UserSlot])
    /\ logs' = IF calls[UserSlot].pc = "threw" THEN logs \cup {AuthLine} ELSE logs
    /\ IF WarmupProceeds(calls[UserSlot])
       THEN /\ \E plans \in RestPlans :
                 calls' = [c \in DOMAIN calls |->
                             IF \E i \in 1..Len(WarmupRest) : RestSlots[i] = c
                             THEN LET i == CHOOSE i \in 1..Len(WarmupRest) :
                                                RestSlots[i] = c
                                  IN RefreshCall(WarmupRest[i].path, WarmupRest[i].params,
                                                 WarmupRest[i].ttl, "none", plans[i])
                             ELSE calls[c]]
            /\ warmup' = "batch"
       ELSE /\ warmup' = "done"
            /\ UNCHANGED calls
    /\ UNCHANGED <<now, onDegradation, store, consecutiveFailures, notifs, started, streak,
                   timers, nextFire, running, cycles, lastTick, refreshes>>

\* runStartupWarmup after its await of fetchBatch: the summary line
WarmupBatchDone ==
    /\ warmup = "batch"
    /\ \A i \in 1..Len(WarmupRest) : Finished(calls[RestSlots[i]])
    /\ logs' = logs \cup {SummaryLine(fetchBatch(WarmupRest, RestSlots))}
    /\ warmup' = "done"
    /\ UNCHANGED <<now, onDegradation, store, consecutiveFailures, notifs, calls, started,
                   streak, timers, nextFire, running, cycles, lastTick, refreshes>>

----------------------------------------------------------------------------
(* WarmupSpec: scheduleWarmup has returned; the startup warmup runs, within *)
(* the first period, to its summary line.  The log sink is that of         *)
(* index.ts, which hands the line to sendLoggingMessage and never throws.  *)

\* scheduleWarmup: runStartupWarmup has run to its first await, the timers
\* are set
WarmupInit ==
    /\ now = 0
    /\ store = <<>>
    /\ consecutiveFailures = 0
    /\ notifs = <<>>
    /\ onDegradation = "spy"
    /\ \E plan \in UserPlans :
         calls = [c \in WarmupSlots |->
                    IF c = UserSlot
                    THEN RefreshCall(CURRENT_USER.path, CURRENT_USER.params,
                                     CURRENT_USER.ttl, "none", plan)
                    ELSE IdleCall]
    /\ started = 0
    /\ streak = 0
    /\ timers = Tiers
    /\ nextFire = [t \in Tiers |-> TierInterval(t)]
    /\ running = [t \in Tiers |-> FALSE]
    /\ cycles = {}
    /\ logs = {}
    /\ lastTick = [t \in Tiers |-> "none"]
    /\ refreshes = [stale |-> {}, failed |-> {}]
    /\ warmup = "user"

NextWarmup ==
    \/ WarmupUserDone
    \/ WarmupBatchDone
    \/ /\ ~(warmup = "user" /\ Finished(calls[UserSlot]))
       /\ ~(warmup = "batch"
            /\ \A i \in 1..Len(WarmupRest) : Finished(calls[RestSlots[i]]))
       /\ \/ AdvanceTime(MaxWarmupTime)
          \/ \E c \in WarmupSlots : FetchSettles(c) \/ BodyDone(c)

WarmupSpec == WarmupInit /\ [][NextWarmup]_vars

----------------------------------------------------------------------------
(* SchedSpec: the two timers of scheduleWarmup and their refresh cycles.   *)
(* The continuation of a settled fetchBatch runs in the turn of the event  *)
(* loop that settled it, before any other event is handled.                *)

\* the URLs of the catalogue
EntryUrl(e) == buildUrl(e.path, e.params)

\* The state the startup warmup leaves at time w: with every entry cached
\* (good), or with every entry refused by the server and none cached.
AfterWarmup(w, good) ==
    /\ now = w
    /\ store = IF good
               THEN LET es == <<CURRENT_USER>> \o WarmupRest
                    IN [u \in {EntryUrl(es[i]) : i \in 1..Len(es)} |->
                          LET e == es[CHOOSE i \in 1..Len(es) : EntryUrl(es[i]) = u]
                          IN [value |-> "v1", exp |-> w + e.ttl]]
               ELSE <<>>
    /\ consecutiveFailures = 0
    /\ notifs = <<>>
    /\ onDegradation = "spy"
    /\ calls = [c \in SchedSlots |-> IdleCall]
    /\ started = 0
    /\ streak = 0
    /\ timers = Tiers
    /\ nextFire = [t \in Tiers |-> TierInterval(t)]
    /\ running = [t \in Tiers |-> FALSE]
    /\ cycles = {}
    /\ logs = IF good
              THEN {SummaryLine([ok |-> [i \in 1..Len(WarmupRest) |-> WarmupRest[i].label],
                                 failed |-> <<>>])}
              ELSE {AuthLine,
                    SummaryLine([ok |-> <<>>,
                                 failed |-> [i \in 1..Len(WarmupRest) |->
                                               WarmupRest[i].label]])}
    /\ lastTick = [t \in Tiers |-> "none"]
    /\ refreshes = [stale |-> {}, failed |-> {}]
    /\ warmup = "done"

\* the startup warmup has failed
SchedInit == AfterWarmup(0, FALSE)

NextSched ==
    \/ \E cy \in cycles : CycleDone(cy)
    \/ /\ \A cy \in cycles : ~Settled(cy)
       /\ \/ \E t \in Tiers : TimerTick(t)
          \/ AdvanceTime(MaxSchedTime)
          \/ Cleanup
          \/ \E c \in SchedSlots : FetchSettles(c) \/ BodyDone(c)

SchedSpec == SchedInit /\ [][NextSched]_vars

\* the startup warmup has cached every entry, early or late in the first period
WarmInit == \E w \in 0..MaxWarmupTime : AfterWarmup(w, TRUE)

WarmSpec == WarmInit /\ [][NextSched]_vars

----------------------------------------------------------------------------
(* Properties of the retry engine *)

\* C2: a call that was never cancelled, whose first attempt the network fails
\* transiently and whose second attempt it answers with a value, returns that
\* value after exactly 2 network attempts.
C2_RetryThenSuccess ==
    \A c \in CallIds :
        LET k == calls[c]
        IN (/\ Finished(k) /\ ~k.hit /\ k.sig # "aborted"
            /\ Len(k.plan) >= 2
            /\ TransientOutcome(k.plan[1])
            /\ k.plan[2].t = "ok")
           => (k.pc = "returned" /\ k.value = k.plan[2].value /\ k.nFetch = 2)

C2_Witness ==
    \E c \in CallIds :
        /\ calls[c].pc = "returned" /\ calls[c].nFetch = 2
        /\ calls[c].hist[1].t = "timeout" /\ calls[c].value = Null

\* C3: an attempt that ends in a semantic failure (400, 401, 403, 404) is the
\* last attempt of its call, which throws; when it is the first attempt, 1
\* network attempt was made and the thrown failure has retryCount 0.
C3_SemanticNotRetried ==
    \A c \in CallIds :
        LET k == calls[c]
        IN \A i \in 1..Len(k.hist) :
             SemanticOutcome(k.hist[i])
             => /\ i = Len(k.hist)
                /\ k.pc = "threw"
                /\ k.nFetch = i
                /\ (i = 1 => /\ k.err.cls = "YouTrackError"
                             /\ k.err.statusCode = k.hist[i].status
                             /\ k.err.retryCount = 0)

C3_Witness ==
    \E c \in CallIds :
        /\ calls[c].pc = "threw" /\ calls[c].nFetch = 1
        /\ calls[c].hist[1].status = 404 /\ calls[c].sig = "none"

\* C4 (safety part): a call makes at most 3 network attempts, and when all 3
\* fail transiently it throws a YouTrackError with retryCount 2, isTransient
\* true and the message and status code of the third failure.
C4_Safe ==
    \A c \in CallIds :
        LET k == calls[c]
        IN /\ k.nFetch <= 3
           /\ (/\ Len(k.hist) = 3
               /\ \A i \in 1..3 : TransientOutcome(k.hist[i]) /\ k.hist[i].cls = "transient")
              => /\ k.pc = "threw"
                 /\ k.err.cls = "YouTrackError"
                 /\ k.err.retryCount = 2
                 /\ k.err.isTransient
                 /\ k.err.message = k.ferr.message
                 /\ k.err.message = StatusText(k.hist[3].status)
                 /\ k.err.statusCode = k.hist[3].status

\* C4: at most 3 attempts, the exhausted call throws as C4_Safe says, and
\* every pending call ends (returns or throws).
C4_BoundedRetries ==
    /\ []C4_Safe
    /\ \A c \in CallIds : Pending(calls[c]) ~> Finished(calls[c])

C4_Witness ==
    \E c \in CallIds :
        /\ calls[c].pc = "threw" /\ calls[c].nFetch = 3
        /\ calls[c].err.retryCount = 2 /\ calls[c].err.statusCode = 503
        /\ calls[c].hist[1].status = 500

\* C5: no network attempt starts while the call's signal is triggered; a
\* call started with a triggered signal throws the non-transient cancelled
\* failure after 0 attempts.
C5_NoAttemptWhenAborted ==
    [][\A c \in CallIds :
         /\ (calls'[c].nFetch > calls[c].nFetch => calls'[c].sig # "aborted")
         /\ (calls[c].pc = "idle" /\ calls'[c].sig = "aborted"
               => /\ calls'[c].pc = "threw"
                  /\ calls'[c].nFetch = 0
                  /\ calls'[c].err = CancelledError
                  /\ ~calls'[c].err.isTransient)]_vars

\* a signal triggered during the backoff sleep: the retry was not made
C5_Witness ==
    \E c \in CallIds :
        /\ calls[c].pc = "threw" /\ calls[c].sig = "aborted"
        /\ calls[c].nFetch = 1 /\ Len(calls[c].hist) = 1
        /\ calls[c].hist[1].cls = "transient"
        /\ calls[c].err = CancelledError

\* C6: a call whose signal is triggered after a failed transient attempt
\* that had a retry left throws the cancelled failure, not the attempt's.
C6_CancelledNotTransient ==
    \A c \in CallIds :
        LET k == calls[c]
        IN (/\ k.pc = "threw" /\ k.sig = "aborted"
            /\ Len(k.hist) \in 1..Len(RETRY_DELAYS_MS)
            /\ TransientOutcome(k.hist[Len(k.hist)])
            /\ k.hist[Len(k.hist)].cls = "transient")
           => (k.err.message = "Request cancelled by client"
               /\ ~k.err.isTransient /\ k.err.statusCode = NoStatus)

LastNotif(ns) == ns[Len(ns)]

\* C7: onDegradation is invoked once, with level warning, in the step that
\* makes the consecutive-failure counter 3, once, with level error, in the
\* step that makes it 5, and in no other step.
C7_NotifyAtThresholds ==
    [][/\ (consecutiveFailures' # consecutiveFailures /\ consecutiveFailures' = 3
            => notifs' = Append(notifs, [level |-> "warning", count |-> 3]))
       /\ (consecutiveFailures' # consecutiveFailures /\ consecutiveFailures' = 5
            => notifs' = Append(notifs, [level |-> "error", count |-> 5]))
       /\ (consecutiveFailures' = consecutiveFailures
             \/ consecutiveFailures' \notin {3, 5}
            => notifs' = notifs)]_vars

\* the counter has passed 4 and 6: still the two notifications of 3 and 5
C7_Witness ==
    /\ consecutiveFailures = 6
    /\ Len(notifs) = 2
    /\ notifs[1].level = "warning" /\ notifs[2].level = "error"

\* the call of slot c ends in this step
Ends(c) == ~Finished(calls[c]) /\ Finished(calls'[c])

\* the call k has ended because its caller cancelled it: it threw with its
\* signal triggered, and either before any attempt, or on an attempt that
\* the signal interrupted, or after a transient attempt that had a retry left
EndedByCancel(k) ==
    /\ k.pc = "threw" /\ k.sig = "aborted"
    /\ \/ Len(k.hist) = 0
       \/ k.hist[Len(k.hist)].t = "abort"
       \/ /\ Len(k.hist) \in 1..Len(RETRY_DELAYS_MS)
          /\ TransientOutcome(k.hist[Len(k.hist)])

\* C9: a call that ends because of caller cancellation (before the first
\* attempt, while an attempt is in flight, or between a failed attempt and
\* its retry) leaves the consecutive-failure counter and the notifications
\* exactly as they were.
C9_CancelLeavesHealth ==
    [][\A c \in CallIds :
         (Ends(c) /\ EndedByCancel(calls'[c]))
         => (consecutiveFailures' = consecutiveFailures /\ notifs' = notifs)]_vars

\* C8: a call that returns a value fetched over the network or throws on a
\* semantic failure leaves the counter at 0 and notifies nothing; a warning
\* is notified only by the third call in a row that ends in a transient
\* failure since the last such call.
C8_ResetThenThird ==
    [][/\ \A c \in CallIds :
            (/\ Ends(c) /\ ~calls'[c].hit
             /\ \/ calls'[c].pc = "returned"
                \/ SemanticOutcome(calls'[c].hist[Len(calls'[c].hist)]))
            => (consecutiveFailures' = 0 /\ notifs' = notifs)
       /\ (Len(notifs') > Len(notifs) /\ LastNotif(notifs').level = "warning"
            => streak' = 3 /\ streak = 2)]_vars

\* two transient failures, a reset, three transient failures: one warning
C8_Witness ==
    /\ started = 6
    /\ \A c \in CallIds : ~Pending(calls[c])
    /\ consecutiveFailures = 3
    /\ notifs = <<[level |-> "warning", count |-> 3]>>

\* C18: a call that throws after its retries, on a last attempt the network
\* answered with a transient status and a Retry-After header, throws a
\* failure that carries the hint of that header in milliseconds, the
\* number of retries made, and the message, status code and transience of
\* the failure of that attempt.
C18_RetryAfterPreserved ==
    \A c \in CallIds :
        LET k == calls[c]
            last == PlanAt(k.plan, k.nFetch)
        IN (/\ k.pc = "threw" /\ k.nFetch = Len(RETRY_DELAYS_MS) + 1
            /\ Len(k.hist) = k.nFetch
            /\ TransientOutcome(k.hist[k.nFetch])
            /\ last.retryAfter # NoHeader)
           => /\ k.err.cls = "YouTrackError"
              /\ k.err.retryAfterMs = parseRetryAfter(last.retryAfter)
              /\ k.err.retryCount = Len(RETRY_DELAYS_MS)
              /\ k.err.message = k.ferr.message
              /\ k.err.statusCode = last.status
              /\ k.err.isTransient

\* C19: a call that has ended has returned the value of an attempt the
\* network answered (or a cached one), or has thrown a YouTrackError; no
\* failure of an attempt, that of reading the body of a 2xx response
\* included, is dropped or thrown as any other exception.
C19_OnlyStructuredFailures ==
    \A c \in CallIds :
        LET k == calls[c]
        IN /\ k.pc = "threw" => k.err.cls = "YouTrackError"
           /\ (k.pc = "returned" /\ ~k.hit)
                => /\ k.hist[Len(k.hist)].t = "ok"
                   /\ k.value = PlanAt(k.plan, k.nFetch).value

\* C20: a call whose final failure makes onDegradation fire throws its own
\* failure, whatever the callback does: a YouTrackError with the message,
\* status code and transience of its last attempt and the number of retries
\* it made.
C20_CallbackFailureContained ==
    [][\A c \in CallIds :
         LET n == calls'[c]
         IN (Ends(c) /\ Len(notifs') > Len(notifs))
            => /\ n.pc = "threw"
               /\ n.err.cls = "YouTrackError"
               /\ n.err.message = n.ferr.message
               /\ n.err.statusCode = n.hist[Len(n.hist)].status
               /\ n.err.isTransient
               /\ n.err.retryCount = n.attempt]_vars

----------------------------------------------------------------------------
(* Properties of the cache *)

\* C1: when the first call issued, a get with a TTL, has returned a value
\* it fetched, and a second get of the same URL and TTL starts before that
\* TTL has elapsed, the second call returns at once the value the first one
\* fetched (null included) and the two calls made 1 network request in all.
C1_SecondGetHits ==
    [][\A c, d \in CallIds :
         LET k == calls[d]
             n == calls'[c]
         IN (/\ c # d /\ started = 1
             /\ k.pc = "returned" /\ k.kind = "get" /\ k.ttlMs # NoTtl /\ ~k.hit
             /\ calls[c].pc = "idle" /\ n.pc # "idle"
             /\ n.kind = "get" /\ n.url = k.url /\ n.ttlMs = k.ttlMs
             /\ now <= k.doneAt + k.ttlMs)
            => /\ n.pc = "returned" /\ n.hit
               /\ n.value = k.value
               /\ k.value = k.plan[1].value
               /\ k.nFetch + n.nFetch = 1]_vars

\* the second call was served a cached null, one tick after it was fetched
C1_Witness ==
    \E c, d \in CallIds :
        /\ c # d /\ started = 2
        /\ calls[d].pc = "returned" /\ ~calls[d].hit /\ calls[d].nFetch = 1
        /\ calls[d].value = Null /\ calls[d].ttlMs = 1 /\ calls[d].doneAt = 0
        /\ calls[c].pc = "returned" /\ calls[c].hit /\ calls[c].nFetch = 0
        /\ calls[c].value = Null /\ calls[c].url = calls[d].url
        /\ calls[c].doneAt = 1

\* C12: a refresh starts by issuing a network request and leaves the cache
\* as it is, whatever entry the cache holds; a refresh with a TTL that the
\* network answers with a value returns that value and writes it under its
\* URL with the expiry now + TTL; and a get of the same URL with a TTL that
\* starts while that entry is the one the refresh wrote, before it expires,
\* returns the refreshed value without a network request.
C12_RefreshOverwrites ==
    [][\A c \in CallIds :
         LET k == calls[c]
             n == calls'[c]
         IN /\ (k.pc = "idle" /\ n.pc # "idle" /\ n.kind = "refresh")
                => (n.pc = "fetch" /\ n.nFetch = 1 /\ store' = store)
            /\ (Ends(c) /\ n.kind = "refresh" /\ n.pc = "returned" /\ n.ttlMs # NoTtl)
                => /\ n.value = n.plan[1].value
                   /\ n.url \in DOMAIN store'
                   /\ store'[n.url] = [value |-> n.value, exp |-> now + n.ttlMs]
            /\ \A d \in CallIds \ {c} :
                 LET r == calls[d]
                 IN (/\ r.kind = "refresh" /\ r.pc = "returned" /\ r.ttlMs # NoTtl
                     /\ r.url \in DOMAIN store
                     /\ store[r.url] = [value |-> r.value, exp |-> r.doneAt + r.ttlMs]
                     /\ now <= r.doneAt + r.ttlMs
                     /\ k.pc = "idle" /\ n.pc # "idle" /\ n.kind = "get"
                     /\ n.url = r.url /\ n.ttlMs # NoTtl)
                    => (n.pc = "returned" /\ n.hit /\ n.value = r.value
                        /\ n.nFetch = 0)]_vars

\* a get cached v1 at time 0 for one tick; a refresh of the same URL that
\* started while that entry was valid fetched null and wrote it over v1
C12_Witness ==
    \E c, d \in CallIds :
        /\ calls[d].kind = "get" /\ calls[d].pc = "returned" /\ ~calls[d].hit
        /\ calls[d].value = "v1" /\ calls[d].ttlMs = 1 /\ calls[d].doneAt = 0
        /\ calls[c].kind = "refresh" /\ calls[c].url = calls[d].url
        /\ calls[c].warm /\ calls[c].ttlMs = 1
        /\ calls[c].pc = "returned" /\ calls[c].nFetch = 1
        /\ calls[c].value = Null /\ calls[c].doneAt = 1
        /\ store[calls[c].url] = [value |-> Null, exp |-> 2]

\* C13: a get served from the cache is served the value of an entry whose
\* expiry is not earlier than the current time; a get with a TTL that finds
\* an entry whose expiry is earlier than the current time is not served from
\* it: it removes the entry and issues a network request.
C13_ExpiredMisses ==
    [][\A c \in CallIds :
         LET k == calls[c]
             n == calls'[c]
         IN (k.pc = "idle" /\ n.pc # "idle" /\ n.kind = "get")
            => /\ n.hit => /\ n.url \in DOMAIN store
                           /\ now <= store[n.url].exp
                           /\ n.value = store[n.url].value
               /\ (n.ttlMs # NoTtl /\ n.url \in DOMAIN store /\ now > store[n.url].exp)
                    => /\ ~n.hit /\ n.pc = "fetch" /\ n.nFetch = 1
                       /\ n.url \notin DOMAIN store']_vars

\* the first call cached v1 at time 0 for one tick; the second call, a get of
\* the same URL at time 2, has removed the entry and is asking the network
C13_Witness ==
    \E c, d \in CallIds :
        /\ c # d /\ started = 2 /\ now = 2
        /\ calls[d].kind = "get" /\ calls[d].pc = "returned" /\ ~calls[d].hit
        /\ calls[d].value = "v1" /\ calls[d].ttlMs = 1 /\ calls[d].doneAt = 0
        /\ calls[c].kind = "get" /\ calls[c].url = calls[d].url
        /\ calls[c].ttlMs = 1 /\ ~calls[c].warm
        /\ calls[c].pc = "fetch" /\ calls[c].nFetch = 1
        /\ calls[c].url \notin DOMAIN store

\* C15: a get without a TTL starts by issuing a network request, whatever
\* the cache holds for its URL, is never served from the cache, and neither
\* the step that starts it nor the step that ends it changes the cache.
C15_NoTtlBypasses ==
    [][\A c \in CallIds :
         LET k == calls[c]
             n == calls'[c]
         IN /\ (k.pc = "idle" /\ n.pc # "idle" /\ n.kind = "get" /\ n.ttlMs = NoTtl)
               => (n.pc = "fetch" /\ n.nFetch = 1 /\ ~n.hit /\ store' = store)
            /\ (Ends(c) /\ n.kind = "get" /\ n.ttlMs = NoTtl)
               => (store' = store /\ ~n.hit /\ n.nFetch = 1)]_vars

\* a get without a TTL began while the cache held a valid v1 for its URL; it
\* has fetched null over the network and the cache still holds v1
C15_Witness ==
    \E c \in CallIds :
        /\ calls[c].kind = "get" /\ calls[c].ttlMs = NoTtl /\ calls[c].warm
        /\ calls[c].pc = "returned" /\ calls[c].nFetch = 1
        /\ calls[c].value = Null
        /\ calls[c].url \in DOMAIN store
        /\ store[calls[c].url].value = "v1"
        /\ now <= store[calls[c].url].exp

\* the parameter lists p and q give the same names in the same order and a
\* different value text to at least one of them
DifferInValue(p, q) ==
    /\ Len(p) = Len(q)
    /\ \A i \in 1..Len(p) : p[i].k = q[i].k
    /\ \E i \in 1..Len(p) : String(p[i].v) # String(q[i].v)

\* C16: two calls with a TTL, the same path and parameters that differ in a
\* value have different cache keys; a get that finds no entry under its own
\* key asks the network, whatever is cached under the other key; a get that
\* is served from the cache is served the entry of its own key; and a call
\* that caches its value writes the entry of its own key and no other.
C16_DistinctKeys ==
    /\ [](\A c, d \in CallIds :
            (/\ calls[c].pc # "idle" /\ calls[d].pc # "idle"
             /\ calls[c].ttlMs # NoTtl /\ calls[d].ttlMs # NoTtl
             /\ calls[c].path = calls[d].path
             /\ DifferInValue(calls[c].params, calls[d].params))
            => calls[c].url # calls[d].url)
    /\ [][\A c \in CallIds :
            LET k == calls[c]
                n == calls'[c]
            IN /\ (/\ k.pc = "idle" /\ n.pc # "idle" /\ n.kind = "get"
                   /\ n.ttlMs # NoTtl)
                  => /\ n.url \notin DOMAIN store => n.pc = "fetch" /\ n.nFetch = 1
                     /\ n.hit => n.url \in DOMAIN store
                                 /\ n.value = store[n.url].value
               /\ (Ends(c) /\ n.pc = "returned" /\ ~n.hit /\ n.ttlMs # NoTtl)
                  => /\ DOMAIN store' = DOMAIN store \cup {n.url}
                     /\ \A u \in DOMAIN store \ {n.url} : store'[u] = store[u]]_vars

\* get(/test, {fields: a}, ttl) fetched v1 and get(/test, {fields: b}, ttl)
\* fetched null: two requests, two entries, each with its own value
C16_Witness ==
    \E c, d \in CallIds :
        /\ calls[c].pc = "returned" /\ calls[d].pc = "returned"
        /\ calls[c].kind = "get" /\ calls[d].kind = "get"
        /\ calls[c].ttlMs = 1 /\ calls[d].ttlMs = 1
        /\ calls[c].path = calls[d].path
        /\ DifferInValue(calls[c].params, calls[d].params)
        /\ calls[c].nFetch = 1 /\ calls[d].nFetch = 1
        /\ calls[c].value = "v1" /\ calls[d].value = Null
        /\ calls[c].url \in DOMAIN store /\ calls[d].url \in DOMAIN store
        /\ store[calls[c].url].value = "v1" /\ store[calls[d].url].value = Null

\* the parameter lists p and q give the same name/value pairs
SameParamSet(p, q) ==
    {<<p[i].k, String(p[i].v)>> : i \in 1..Len(p)}
        = {<<q[i].k, String(q[i].v)>> : i \in 1..Len(q)}

\* C17: two calls with the same path and the same parameter name/value
\* pairs, in whatever order, have the same cache key; when the first call
\* issued has returned the value it fetched, a get with the same path, TTL
\* and pairs that starts before the TTL has elapsed is served that value
\* without a network request.
C17_OrderIndependentKey ==
    /\ [](\A c, d \in CallIds :
            (/\ calls[c].pc # "idle" /\ calls[d].pc # "idle"
             /\ calls[c].path = calls[d].path
             /\ SameParamSet(calls[c].params, calls[d].params))
            => calls[c].url = calls[d].url)
    /\ [][\A c, d \in CallIds :
            LET k == calls[d]
                n == calls'[c]
            IN (/\ c # d /\ started = 1
                /\ k.pc = "returned" /\ k.kind = "get" /\ k.ttlMs # NoTtl /\ ~k.hit
                /\ calls[c].pc = "idle" /\ n.pc # "idle"
                /\ n.kind = "get" /\ n.path = k.path /\ n.ttlMs = k.ttlMs
                /\ SameParamSet(n.params, k.params)
                /\ now <= k.doneAt + k.ttlMs)
               => (n.pc = "returned" /\ n.hit /\ n.value = k.value
                   /\ n.nFetch = 0)]_vars

\* C14: the cache never holds more than MAX_CACHE_ENTRIES entries; once a
\* get has cached a new key in a full cache, the oldest-inserted key
\* (entry 0) is gone, so that a get of it misses and asks the network.
C14_CapacityBound ==
    /\ [](Cardinality(DOMAIN store) <= MAX_CACHE_ENTRIES)
    /\ [][\A c, d \in CallIds :
            LET r == calls[d]
                n == calls'[c]
            IN (/\ c # d /\ started = 1
                /\ r.pc = "returned" /\ ~r.hit
                /\ r.url = buildUrl(EntryPath(MAX_CACHE_ENTRIES), <<>>)
                /\ calls[c].pc = "idle" /\ n.pc # "idle"
                /\ n.url = buildUrl(EntryPath(0), <<>>))
               => (~n.hit /\ n.pc = "fetch" /\ n.nFetch = 1)]_vars

----------------------------------------------------------------------------
(* Properties of the scheduler *)

InFlight(t) == {cy \in cycles : cy.tier = t}

\* C10: a tier has at most one refresh cycle in flight; a tick that finds
\* the tier's cycle unfinished issues no refresh call and changes nothing
\* but the timer; a cycle starts only in a tick of its tier that found no
\* cycle in flight.
C10_NoOverlap ==
    /\ [](\A t \in Tiers : Cardinality(InFlight(t)) <= 1)
    /\ [][\A t \in Tiers :
            /\ (nextFire'[t] # nextFire[t] /\ InFlight(t) # {}
                 => calls' = calls /\ cycles' = cycles /\ running' = running)
            /\ (Cardinality(InFlight(t)') > Cardinality(InFlight(t))
                 => nextFire'[t] # nextFire[t] /\ InFlight(t) = {})]_vars

\* a tick of the 5-minute tier was skipped, its cycle is still in flight
C10_Witness ==
    /\ lastTick["5min"] = "skipped"
    /\ running["5min"]
    /\ Cardinality(InFlight("5min")) = 1
    /\ \E cy \in InFlight("5min") : ~Settled(cy)

\* C11: a cycle whose refreshes have all ended, whatever they and the log
\* sink did, is finished by the next step, which leaves the running flag of
\* its tier clear; the flag of a tier is set only while a cycle of the tier
\* is in flight; and a tick that finds no cycle of its tier in flight
\* starts one.
C11_FlagCleared ==
    /\ [](\A t \in Tiers : running[t] <=> InFlight(t) # {})
    /\ [][\A t \in Tiers :
            /\ (\E cy \in InFlight(t) : Settled(cy))
                 => InFlight(t)' = {} /\ ~running'[t]
            /\ (InFlight(t) # {} /\ InFlight(t)' = {} => ~running'[t])
            /\ (nextFire'[t] # nextFire[t] /\ InFlight(t) = {}
                 => InFlight(t)' # {} /\ lastTick'[t] = "started")]_vars

\* the first cycle of the 5-minute tier failed and the sink threw on its
\* line (only the line of the catch block arrived); the next tick of the
\* tier has started the second cycle
C11_Witness ==
    /\ lastTick["hour"] = "none"
    /\ [level |-> "warning", text |-> "Background refresh error"] \in logs
    /\ [level |-> "warning", text |-> "Background refresh failed"] \notin logs
    /\ nextFire["5min"] = 3 * TTL_5MIN
    /\ lastTick["5min"] = "started"
    /\ InFlight("5min") # {}

----------------------------------------------------------------------------
(* Properties of the startup warmup and of the background refresh *)

\* the entries the timers refresh
PeriodicEntries == {FIVE_MIN_ENTRIES[i] : i \in 1..Len(FIVE_MIN_ENTRIES)} \cup
                   {HOUR_ENTRIES[i] : i \in 1..Len(HOUR_ENTRIES)}

\* TTLCache.get would return the value cached for the entry
Servable(e) == CacheGetValue(store, EntryUrl(e), now) # Undefined

\* C21: a periodic refresh that fails is logged as a warning and leaves the
\* scheduler running, and the value cached before for its entry stays
\* servable from the cache until a later cycle refreshes the entry with
\* success, also once the TTL of that value has elapsed.
C21_StaleValueServable ==
    /\ \A l \in logs : l.text = "Background refresh failed" => l.level = "warning"
    /\ \A cy \in cycles : Settled(cy) => ENABLED CycleDone(cy)
    /\ \A e \in PeriodicEntries :
         (e.label \in refreshes.stale /\ EntryUrl(e) \in DOMAIN store) => Servable(e)

\* the summary lines of the startup warmup logged so far
SummaryLines == {l \in logs : l.text \in {"Warmup complete", "Warmup partial"}}

Issued(cs) == {c \in DOMAIN cs : cs[c].pc # "idle"}

\* C23: the cleanup handle stops every timer, and once it has been called no
\* tick of any tier runs: no refresh cycle starts and no refresh call is
\* issued any more, whatever time passes.
C23_NoCycleAfterCleanup ==
    [][/\ timers' # timers => timers' = {}
       /\ timers = {} => /\ timers' = {}
                         /\ cycles' \subseteq cycles
                         /\ Issued(calls') \subseteq Issued(calls)
                         /\ nextFire' = nextFire
                         /\ lastTick' = lastTick]_vars

\* the handle was called after a cycle of the 5-minute tier had started, and
\* the time of the next tick of that tier has come with the timers cleared
C23_Witness ==
    /\ timers = {}
    /\ lastTick["5min"] = "started"
    /\ now >= nextFire["5min"]

----------------------------------------------------------------------------
(* Properties of the classification of failures *)

C25_OneCountPerCall ==
    [][\A c \in DOMAIN calls :
         /\ (Ends(c) /\ calls'[c].pc = "threw" /\ calls'[c].err.cls = "YouTrackError"
             /\ calls'[c].err.isTransient)
              => /\ consecutiveFailures' = consecutiveFailures + 1
                 /\ Len(calls'[c].hist) \in 1..3
         /\ (calls[c].pc # "sleep" /\ calls'[c].pc = "sleep")
              => /\ consecutiveFailures' = consecutiveFailures
                 /\ notifs' = notifs
         /\ (started' = 3 /\ streak' = 3)
              => /\ consecutiveFailures' = 3
                 /\ Len(notifs') = 1
                 /\ notifs'[1].level = "warning"]_vars

\* three calls have each made three attempts and ended in a transient
\* failure: nine failed attempts, counter 3, one notification
C25_Witness ==
    /\ started = 3
    /\ streak = 3
    /\ consecutiveFailures = 3
    /\ Len(notifs) = 1
    /\ \E c \in DOMAIN calls : calls[c].pc = "threw" /\ Len(calls[c].hist) = 3

----------------------------------------------------------------------------
(* Properties of concurrent and of failed calls *)

\* C26: a get with a TTL that misses, and a refresh, issue their own
\* network request also while another request for the same key is in
\* flight; each of them that the network answers with a value writes that
\* value, with the expiry now + TTL, over whatever the key holds, and leaves
\* the other keys alone; so of two such requests the cache holds what the
\* one that completed later wrote, whichever started first.
C26_LastCompletionWins ==
    /\ [][\A c \in CallIds :
            LET k == calls[c]
                n == calls'[c]
            IN /\ (/\ k.pc = "idle" /\ n.pc # "idle" /\ n.ttlMs # NoTtl
                   /\ (n.kind = "refresh" \/ ~n.hit)
                   /\ \E d \in CallIds \ {c} : Pending(calls[d]) /\ calls[d].url = n.url)
                    => (n.pc = "fetch" /\ n.nFetch = 1)
               /\ (Ends(c) /\ n.pc = "returned" /\ ~n.hit /\ n.ttlMs # NoTtl)
                    => /\ n.nFetch = 1
                       /\ n.url \in DOMAIN store'
                       /\ store'[n.url] = [value |-> n.value, exp |-> now + n.ttlMs]
                       /\ \A u \in DOMAIN store \ {n.url} :
                            u \in DOMAIN store' /\ store'[u] = store[u]]_vars
    /\ [](\A c, d \in CallIds :
            (/\ c # d /\ started = 2
             /\ calls[c].pc = "returned" /\ ~calls[c].hit /\ calls[c].ttlMs # NoTtl
             /\ calls[d].pc = "returned" /\ ~calls[d].hit /\ calls[d].ttlMs # NoTtl
             /\ calls[c].url = calls[d].url
             /\ calls[c].doneAt > calls[d].doneAt)
              => store[calls[c].url] = [value |-> calls[c].value,
                                        exp |-> calls[c].doneAt + calls[c].ttlMs])

\* two gets of one key both missed at time 0 and fetched, one v1 and the
\* other null; the cache holds null, the value of the one that ended last
C26_Witness ==
    \E c, d \in CallIds :
        /\ calls[c].kind = "get" /\ calls[d].kind = "get"
        /\ calls[c].url = calls[d].url
        /\ calls[c].ttlMs = 1 /\ calls[d].ttlMs = 1
        /\ calls[c].pc = "returned" /\ ~calls[c].hit /\ calls[c].nFetch = 1
        /\ calls[d].pc = "returned" /\ ~calls[d].hit /\ calls[d].nFetch = 1
        /\ calls[c].doneAt = 0 /\ calls[d].doneAt = 0
        /\ calls[c].value = "v1" /\ calls[d].value = Null
        /\ store[calls[c].url] = [value |-> Null, exp |-> 1]

\* C27: a failure a call throws has a retryCount above 0 only when the call
\* made all 3 attempts; in every other outcome, a semantic failure met on a
\* retry included, retryCount is 0.
C27_RetryCountOnlyWhenExhausted ==
    \A c \in DOMAIN calls :
        (calls[c].pc = "threw" /\ calls[c].err.retryCount > 0)
          => Len(calls[c].hist) = Len(RETRY_DELAYS_MS) + 1

\* C27, amended: the structured failure a call throws on a failed attempt
\* has as retryCount the number of retries made before that attempt (the
\* attempts made, less one), whether the failure is transient or semantic;
\* the cancellation found before an attempt, and every error that is not a
\* structured failure, has retryCount 0.
C27_RetryCountIsRetriesMade ==
    [][\A c \in DOMAIN calls :
         (Ends(c) /\ calls'[c].pc = "threw")
           => calls'[c].err.retryCount =
                IF calls[c].pc \in {"fetch", "body"}
                   /\ calls'[c].err.cls = "YouTrackError"
                THEN calls'[c].nFetch - 1
                ELSE 0]_vars

\* a call answered 429 and then, on its retry, 401 has thrown the semantic
\* failure with retryCount 1
C27_Witness ==
    \E c \in DOMAIN calls :
        /\ calls[c].pc = "threw"
        /\ Len(calls[c].hist) = 2
        /\ calls[c].hist[1].status = 429
        /\ calls[c].err.statusCode = 401
        /\ ~calls[c].err.isTransient
        /\ calls[c].err.retryCount = 1

\* C28: the timers of the tiers do not hold one another up: the tick of a
\* tier comes no later than its due time whatever the other tier is doing; a
\* tick that finds no cycle of its own tier in flight starts a cycle, also
\* while a cycle of the other tier is in flight; and a tick is skipped only
\* when a cycle of its own tier is in flight.
C28_TiersIndependent ==
    /\ [](\A t \in timers : /\ now <= nextFire[t]
                            /\ now = nextFire[t] => ENABLED TimerTick(t))
    /\ [][\A t \in Tiers :
            nextFire'[t] # nextFire[t]
              => /\ \A u \in Tiers \ {t} : InFlight(u)' = InFlight(u)
                 /\ IF InFlight(t) = {}
                    THEN /\ lastTick'[t] = "started"
                         /\ \E cy \in InFlight(t)' :
                              \A i \in 1..Len(cy.slots) :
                                 calls'[cy.slots[i]].pc = "fetch"
                    ELSE lastTick'[t] = "skipped" /\ InFlight(t)' = InFlight(t)]_vars

\* the tick of the hourly tier has started its cycle while the cycle the
\* 5-minute tier started before it was unfinished
C28_Witness ==
    /\ [tier |-> "5min", slots |-> <<1, 2>>] \in cycles
    /\ [tier |-> "hour", slots |-> <<3, 4, 5>>] \in cycles
    /\ \A cy \in cycles : ~Settled(cy)
    /\ lastTick["hour"] = "started"

\* every periodic refresh issued so far for the entry has succeeded or is
\* in flight and will be answered with a value
RefreshesSucceed(e) ==
    /\ e.label \notin refreshes.failed
    /\ \A c \in DOMAIN calls :
         (calls[c].pc # "idle" /\ calls[c].url = EntryUrl(e))
           => \A i \in 1..Len(calls[c].plan) : calls[c].plan[i].t = "ok"

\* C29: an entry of the 5-minute or of the hourly tier that the warmup has
\* cached stays servable from the cache for as long as the timers run and
\* every periodic refresh of it succeeds: it does not expire before the next
\* refresh has rewritten it.
C29_AlwaysWarm ==
    \A e \in PeriodicEntries :
        (timers = Tiers /\ RefreshesSucceed(e)) => Servable(e)

\* what the cache would serve at time t: its entries that have not expired
LiveEntries(st, t) ==
    {[key |-> u, value |-> st[u].value, exp |-> st[u].exp] :
        u \in {k \in DOMAIN st : t <= st[k].exp}}

\* C30: a call that ends in a failure (semantic, transient after its last
\* attempt, cancellation) writes nothing to the cache in the step that ends
\* it, and no step of a call other than its successful completion creates an
\* entry or changes the value or the expiry the cache holds for a key: the
\* only trace such a step may leave is the removal of an entry that had
\* already expired.
C30_FailureLeavesCache ==
    [][/\ \A c \in DOMAIN calls :
            (Ends(c) /\ calls'[c].pc = "threw") => store' = store
       /\ (\A c \in DOMAIN calls : ~(Ends(c) /\ calls'[c].pc = "returned"))
            => /\ LiveEntries(store', now) = LiveEntries(store, now)
               /\ \A u \in DOMAIN store' : u \in DOMAIN store /\ store'[u] = store[u]]_vars

\* a call cached v1 for a key at time 0; a refresh of the same key was then
\* refused with 404, and at time 1 the cache holds the entry as it was
\* written and nothing else
C30_Witness ==
    \E c \in DOMAIN calls :
        /\ calls[c].pc = "threw" /\ calls[c].ttlMs = 1
        /\ calls[c].kind = "refresh"
        /\ calls[c].err.statusCode = 404
        /\ calls[c].url \in DOMAIN store
        /\ store[calls[c].url] = [value |-> "v1", exp |-> 1]
        /\ DOMAIN store = {calls[c].url}
        /\ now = 1
====
